---- MODULE Spec2Model ----
(***************************************************************************)
(* A model of picostruct (src/src/index.ts): the recursive dispatcher      *)
(* `validate`, the error-path propagation of `rethrow`, and the            *)
(* structural, logical and refinement combinators.                         *)
(*                                                                         *)
(* JavaScript values are records [t, n, s]; containers live in a heap (a   *)
(* sequence of objects, an address is an index) so that reference identity *)
(* and in-place mutation are part of the model.  A call of a validator     *)
(* returns an outcome [ok, val, err, heap, log]: the returned value or the *)
(* ErrorInfo of the thrown ValidationError, the heap as the call left it,  *)
(* and the log of every validate() call, property read, property write and *)
(* allocation it made, in order.                                           *)
(***************************************************************************)
EXTENDS Integers, Sequences, FiniteSets, TLC

(***************************************************************************)
(* Bounds of the model.                                                    *)
(***************************************************************************)
\* numbers drawn for inputs are 0..MaxNum
MaxNum == 2
\* input sequences have 0..MaxLen elements
MaxLen == 2
\* chains of nested one-key objects are 1..MaxDepth deep
MaxDepth == 3

(***************************************************************************)
(* Values.                                                                 *)
(***************************************************************************)
Undef == [t |-> "undefined", n |-> 0, s |-> ""]
Null == [t |-> "null", n |-> 0, s |-> ""]
Bool(b) == [t |-> "boolean", n |-> IF b THEN 1 ELSE 0, s |-> ""]
Num(i) == [t |-> "number", n |-> i, s |-> ""]
\* i + 0.5, a finite number that is no integer
Half(i) == [t |-> "number", n |-> i, s |-> "half"]
NaN == [t |-> "number", n |-> 0, s |-> "NaN"]
Infinity == [t |-> "number", n |-> 0, s |-> "Infinity"]
Str(s) == [t |-> "string", n |-> 0, s |-> s]
\* a reference to the container at address a of the heap
Ref(a) == [t |-> "ref", n |-> a, s |-> ""]

\* typeof x
TypeOf(x) == IF x.t \in {"ref", "null"} THEN "object" ELSE x.t
\* !x
Falsy(x) ==
    \/ x.t \in {"undefined", "null"}
    \/ x.t = "boolean" /\ x.n = 0
    \/ x.t = "number" /\ ((x.n = 0 /\ x.s = "") \/ x.s = "NaN")
    \/ x.t = "string" /\ x.s = ""
\* a === b (NaN differs from itself; references compare by address)
StrictEq(a, b) == a = b /\ ~(a.t = "number" /\ a.s = "NaN")
IsFinite(x) == x.t = "number" /\ x.s \in {"", "half"}
IsInteger(x) == x.t = "number" /\ x.s = ""

Digits == <<"0", "1", "2", "3", "4", "5", "6", "7", "8", "9">>
RECURSIVE NatStr(_)
\* the decimal form of a natural number
NatStr(i) == IF i < 10 THEN Digits[i + 1] ELSE NatStr(i \div 10) \o Digits[(i % 10) + 1]
\* String(x) of a primitive, as a property key or a template string uses it
ToStr(x) ==
    CASE x.t = "string" -> x.s
      [] x.t = "number" /\ x.s = "" -> IF x.n < 0 THEN "-" \o NatStr(-x.n) ELSE NatStr(x.n)
      [] x.t = "number" /\ x.s = "half" -> NatStr(x.n) \o ".5"
      [] x.t = "number" -> x.s
      [] x.t = "boolean" -> IF x.n = 1 THEN "true" ELSE "false"
      [] x.t = "ref" -> "[object Object]"
      [] OTHER -> x.t
\* JSON.stringify(x) of a primitive (undefined has no JSON form)
Stringify(x) ==
    CASE x.t = "string" -> "\"" \o x.s \o "\""
      [] x.t = "number" /\ x.s \in {"NaN", "Infinity"} -> "null"
      [] x.t = "undefined" -> "undefined"
      [] OTHER -> ToStr(x)

(***************************************************************************)
(* The heap: containers, their keys in JavaScript's enumeration order      *)
(* (index keys ascending first, then the other keys in insertion order).   *)
(***************************************************************************)
IndexKeys == {Digits[i] : i \in 1..10}
KeyNum(k) == CHOOSE i \in 0..9 : Digits[i + 1] = k
Range(q) == {q[i] : i \in 1..Len(q)}

\* where a new key k goes in the enumeration order keys
InsertAt(keys, k) ==
    IF k \in IndexKeys
    THEN LET later == {i \in 1..Len(keys) :
                          keys[i] \notin IndexKeys \/ KeyNum(keys[i]) > KeyNum(k)}
         IN IF later = {} THEN Len(keys) + 1
            ELSE CHOOSE i \in later : \A j \in later : i <= j
    ELSE Len(keys) + 1
InsertKey(keys, k) ==
    LET p == InsertAt(keys, k)
    IN SubSeq(keys, 1, p - 1) \o <<k>> \o SubSeq(keys, p, Len(keys))

EmptyObject == [isArray |-> FALSE, keys |-> <<>>, val |-> [k \in {} |-> Undef]]
\* x[k]
Get(h, a, k) == IF k \in DOMAIN h[a].val THEN h[a].val[k] ELSE Undef
\* x[k] = v
SetProp(o, k, v) ==
    IF k \in DOMAIN o.val
    THEN [o EXCEPT !.val[k] = v]
    ELSE [o EXCEPT !.keys = InsertKey(o.keys, k),
                   !.val = [j \in DOMAIN o.val \cup {k} |-> IF j = k THEN v ELSE o.val[j]]]
Set(h, a, k, v) == [h EXCEPT ![a] = SetProp(h[a], k, v)]
IsArray(h, x) == x.t = "ref" /\ h[x.n].isArray
\* x.length of a sequence
Length(h, x) == Len(h[x.n].keys)

(***************************************************************************)
(* The log of a call.                                                      *)
(***************************************************************************)
Ev(op, pos, a, k, v) == [op |-> op, pos |-> pos, a |-> a, k |-> k, v |-> v]
EvValidate(pos, x) == Ev("validate", pos, 0, "", x)
EvGet(pos, a, k, v) == Ev("get", pos, a, k, v)
EvSet(pos, a, k, v) == Ev("set", pos, a, k, v)
EvAlloc(pos, a) == Ev("alloc", pos, a, "", Undef)

(***************************************************************************)
(* Errors.                                                                 *)
(***************************************************************************)
\* ErrorDescription, every variant with every field
Desc(type, expected, message, failures, error) ==
    [type |-> type, expected |-> expected, message |-> message,
     failures |-> failures, error |-> error, path |-> <<>>]
Expected(e) == Desc("expected", e, "", <<>>, <<>>)
Union(failures) == Desc("union", "", "", failures, <<>>)
KeyError(info) == Desc("key", "", "", <<>>, <<info>>)
Custom(m) == Desc("custom", "", m, <<>>, <<>>)
Unexpected == Desc("unexpected", "", "", <<>>, <<>>)
NoError == Desc("", "", "", <<>>, <<>>)

\* the outcome of a call that returned val
Return(h, log, val) == [ok |-> TRUE, val |-> val, err |-> NoError, heap |-> h, log |-> log]
\* the outcome of a call that threw ValidationError(info)
Throw(h, log, info) == [ok |-> FALSE, val |-> Undef, err |-> info, heap |-> h, log |-> log]

(***************************************************************************)
(* Schemas: a literal, a keyed structure (map-like "object" or array-like  *)
(* "tuple"), or a validator function made by one of the factories.         *)
(***************************************************************************)
Schema(k, v, keys, sub, f) == [k |-> k, v |-> v, keys |-> keys, sub |-> sub, f |-> f]
LitS(v) == Schema("literal", v, <<>>, <<>>, "")
\* { keys[1]: sub[1], ... }, the keys in enumeration order
ObjS(keys, sub) == Schema("object", Undef, keys, sub, "")
\* [ sub[1], ... ]
TupS(sub) == Schema("tuple", Undef, [i \in 1..Len(sub) |-> Digits[i]], sub, "")
\* string(regex): f is the regex, "" for none
StringS(regex) == Schema("string", Undef, <<>>, <<>>, regex)
NumberS == Schema("number", Undef, <<>>, <<>>, "")
IntegerS == Schema("integer", Undef, <<>>, <<>>, "")
BooleanS == Schema("boolean", Undef, <<>>, <<>>, "")
AnyS == Schema("any", Undef, <<>>, <<>>, "")
NeverS == Schema("never", Undef, <<>>, <<>>, "")
\* maybe(schema, default_); maybe(schema) leaves default_ undefined
MaybeS(schema, default) == Schema("maybe", default, <<>>, <<schema>>, "")
StructS(schema) == Schema("struct", Undef, <<>>, <<schema>>, "")
RecordS(key, value) == Schema("record", Undef, <<>>, <<key, value>>, "")
ArrayS(schema) == Schema("array", Undef, <<>>, <<schema>>, "")
AllOfS(schemas) == Schema("allOf", Undef, <<>>, schemas, "")
AnyOfS(schemas) == Schema("anyOf", Undef, <<>>, schemas, "")
OneOfS(schemas) == Schema("oneOf", Undef, <<>>, schemas, "")
\* map(schema, f), f the name of a mapping
MapS(schema, f) == Schema("map", Undef, <<>>, <<schema>>, f)
\* filter(schema, f, message), f the name of a predicate, message a string ("" for none)
FilterS(schema, f, message) == Schema("filter", Str(message), <<>>, <<schema>>, f)

\* typeof schema === "function"
IsValidator(schema) == schema.k \notin {"literal", "object", "tuple"}

(***************************************************************************)
(* The mappings, predicates and regular expression the callers pass.       *)
(***************************************************************************)
AlnumChars ==
    {"a", "b", "c", "d", "e", "x", "y", "z", "0", "1", "2", "3", "4", "5", "6", "7", "8", "9"}
\* /^[a-z0-9]+$/i.test(s)
RegexTest(regex, s) ==
    IF regex = "/^[a-z0-9]+$/i"
    THEN Len(s) >= 1 /\ \A i \in 1..Len(s) : SubSeq(s, i, i) \in AlnumChars
    ELSE TRUE

\* x > 1
GreaterThanOne(x) == x.t = "number" /\ ((x.s = "" /\ x.n > 1) \/ (x.s = "half" /\ x.n >= 1) \/ x.s = "Infinity")
\* 2 * x
Double(x) ==
    CASE x.t = "number" /\ x.s = "" -> Num(2 * x.n)
      [] x.t = "number" /\ x.s = "half" -> Num(2 * x.n + 1)
      [] x.t = "number" -> x
      [] x.t = "boolean" -> Num(2 * x.n)
      [] x.t = "null" -> Num(0)
      [] x.t = "string" /\ x.s = "" -> Num(0)
      [] x.t = "string" /\ x.s \in IndexKeys -> Num(2 * KeyNum(x.s))
      [] OTHER -> NaN
\* the outcome of the mapping f on x: [ok, val] or a failure [ok, message]
applyFn(f, x) ==
    CASE f = "double" -> [ok |-> TRUE, val |-> Double(x), message |-> ""]
      [] f = "prefix" -> [ok |-> TRUE, val |-> Str("_" \o ToStr(x)), message |-> ""]
      [] f = "greaterThanOne" ->
            IF GreaterThanOne(x) THEN [ok |-> TRUE, val |-> x, message |-> ""]
            ELSE [ok |-> FALSE, val |-> Undef, message |-> "expected a value greater than 1"]
\* the predicate f on x
applyPredicate(f, x) ==
    CASE f = "greaterThanOne" -> GreaterThanOne(x)
      [] f = "isB" -> x = Str("b")

(***************************************************************************)
(* rethrow and fail.                                                       *)
(***************************************************************************)
\* rethrow as it would be if it did e.info.path.unshift(path)
rethrow_prepend(e, path) == [e EXCEPT !.path = <<path>> \o @]
\* e.info.path.push(path); throw e  (the caller throws the returned info)
rethrow(e, path) == [e EXCEPT !.path = Append(@, path)]

\* throw new ValidationError({ ...message, path: [] })
fail(h, log, message) == Throw(h, log, [message EXCEPT !.path = <<>>])

(***************************************************************************)
(* validate and the validators.                                            *)
(***************************************************************************)
RECURSIVE validate(_, _, _, _, _)
RECURSIVE keyedLoop(_, _, _, _, _, _)
RECURSIVE arrayLoop(_, _, _, _, _, _)
RECURSIVE recordLoop(_, _, _, _, _, _, _, _)
RECURSIVE allOfLoop(_, _, _, _, _, _)
RECURSIVE anyOfLoop(_, _, _, _, _, _, _)
RECURSIVE oneOfLoop(_, _, _, _, _, _, _)

\* shapeOk as it would be without `schema.length === x.length`
shapeOk_noLength(h, x, schema) ==
    ~(\/ TypeOf(x) # "object"
      \/ Falsy(x)
      \/ ~(IF schema.k = "tuple" THEN IsArray(h, x) ELSE ~IsArray(h, x)))

\* shapeOk as it would be if a map-like schema were an exact shape: no key of x undeclared
shapeOk_exact(h, x, schema) ==
    ~(\/ TypeOf(x) # "object"
      \/ Falsy(x)
      \/ ~(IF schema.k = "tuple"
           THEN IsArray(h, x) /\ Len(schema.sub) = Length(h, x)
           ELSE ~IsArray(h, x) /\ DOMAIN h[x.n].val \subseteq Range(schema.keys)))

\* the container check of a keyed schema
shapeOk(h, x, schema) ==
    ~(\/ TypeOf(x) # "object"
      \/ Falsy(x)
      \/ ~(IF schema.k = "tuple"
           THEN IsArray(h, x) /\ Len(schema.sub) = Length(h, x)
           ELSE ~IsArray(h, x)))

\* the expected string of a keyed schema's container check
shapeExpected(schema) ==
    IF schema.k = "tuple" THEN "array[" \o NatStr(Len(schema.sub)) \o "]" ELSE "object"

RECURSIVE keyedLoop_noWrite(_, _, _, _, _, _)
\* keyedLoop as it would be if the result were not written back: validate(x[i], schema[i])
keyedLoop_noWrite(h, log, x, schema, pos, i) ==
    IF i > Len(schema.keys) THEN Return(h, log, x)
    ELSE LET key == schema.keys[i]
             arg == Get(h, x.n, key)
             r == validate(h, Append(log, EvGet(pos, x.n, key, arg)), arg,
                           schema.sub[i], Append(pos, i))
         IN IF r.ok
            THEN keyedLoop_noWrite(r.heap, r.log, x, schema, pos, i + 1)
            ELSE Throw(r.heap, r.log, rethrow(r.err, Str(key)))

RECURSIVE keyedLoop_lastFailure(_, _, _, _, _, _)
\* keyedLoop as it would be if it went on after a failing key and threw the last failure
keyedLoop_lastFailure(h, log, x, schema, pos, i) ==
    IF i > Len(schema.keys) THEN Return(h, log, x)
    ELSE LET key == schema.keys[i]
             arg == Get(h, x.n, key)
             r == validate(h, Append(log, EvGet(pos, x.n, key, arg)), arg,
                           schema.sub[i], Append(pos, i))
         IN IF r.ok
            THEN keyedLoop_lastFailure(Set(r.heap, x.n, key, r.val),
                                       Append(r.log, EvSet(pos, x.n, key, r.val)),
                                       x, schema, pos, i + 1)
            ELSE LET rest == keyedLoop_lastFailure(r.heap, r.log, x, schema, pos, i + 1)
                 IN IF rest.ok THEN Throw(rest.heap, rest.log, rethrow(r.err, Str(key)))
                    ELSE rest

\* for (let i in schema) { try { x[i] = validate(x[i], schema[i]) } catch (e) { rethrow(e, i) } }
\* from the i-th key on; return x
keyedLoop(h, log, x, schema, pos, i) ==
    IF i > Len(schema.keys) THEN Return(h, log, x)
    ELSE LET key == schema.keys[i]
             arg == Get(h, x.n, key)
             r == validate(h, Append(log, EvGet(pos, x.n, key, arg)), arg,
                           schema.sub[i], Append(pos, i))
         IN IF r.ok
            THEN keyedLoop(Set(r.heap, x.n, key, r.val),
                           Append(r.log, EvSet(pos, x.n, key, r.val)), x, schema, pos, i + 1)
            ELSE Throw(r.heap, r.log, rethrow(r.err, Str(key)))

\* string(regex)
string(h, log, x, schema) ==
    IF TypeOf(x) = "string" /\ (schema.f = "" \/ RegexTest(schema.f, x.s))
    THEN Return(h, log, x)
    ELSE fail(h, log, Expected("string" \o (IF schema.f # "" THEN " matching " \o schema.f ELSE "")))

\* number()
number(h, log, x) ==
    IF IsFinite(x) THEN Return(h, log, x) ELSE fail(h, log, Expected("finite number"))

\* integer()
integer(h, log, x) ==
    IF IsInteger(x) THEN Return(h, log, x) ELSE fail(h, log, Expected("integer"))

\* boolean()
boolean(h, log, x) ==
    IF TypeOf(x) = "boolean" THEN Return(h, log, x) ELSE fail(h, log, Expected("boolean"))

\* any()
any(h, log, x) == Return(h, log, x)

\* never()
never(h, log, x) == fail(h, log, Expected("never"))

\* maybe(schema, default_)
maybe(h, log, x, schema, pos) ==
    IF TypeOf(x) = "undefined" THEN Return(h, log, schema.v)
    ELSE validate(h, log, x, schema.sub[1], Append(pos, 1))

\* struct(schema)
struct(h, log, x, schema, pos) == validate(h, log, x, schema.sub[1], Append(pos, 1))

\* map(schema, map): map(validate(x, schema))
map(h, log, x, schema, pos) ==
    LET r == validate(h, log, x, schema.sub[1], Append(pos, 1))
    IN IF ~r.ok THEN r
       ELSE LET m == applyFn(schema.f, r.val)
            IN IF m.ok THEN Return(r.heap, r.log, m.val)
               ELSE fail(r.heap, r.log, Custom(m.message))

\* filter(schema, filter, message): map(schema, x => filter(x) ? x : fail(message || "filter failed"))
filter(h, log, x, schema, pos) ==
    LET r == validate(h, log, x, schema.sub[1], Append(pos, 1))
    IN IF ~r.ok THEN r
       ELSE IF applyPredicate(schema.f, r.val) THEN Return(r.heap, r.log, r.val)
       ELSE fail(r.heap, r.log,
                 Custom(IF Falsy(schema.v) THEN "filter failed" ELSE schema.v.s))

RECURSIVE recordLoop_inPlace(_, _, _, _, _, _, _, _)
\* recordLoop as it would be if it wrote into x, as validate and array do, and returned x
recordLoop_inPlace(h, log, x, schema, pos, keys, i, y) ==
    IF i > Len(keys) THEN Return(h, log, x)
    ELSE LET k == keys[i]
             arg == Get(h, x.n, k)
             rv == validate(h, Append(log, EvGet(pos, x.n, k, arg)), arg,
                            schema.sub[2], Append(pos, 2))
         IN IF ~rv.ok THEN Throw(rv.heap, rv.log, rethrow(rv.err, Str(k)))
            ELSE LET rk == validate(rv.heap, rv.log, Str(k), schema.sub[1], Append(pos, 1))
                 IN IF ~rk.ok
                    THEN Throw(rk.heap, rk.log, [KeyError(rk.err) EXCEPT !.path = <<Str(k)>>])
                    ELSE recordLoop_inPlace(Set(rk.heap, x.n, ToStr(rk.val), rv.val),
                                            Append(rk.log, EvSet(pos, x.n, ToStr(rk.val), rv.val)),
                                            x, schema, pos, keys, i + 1, y)

RECURSIVE recordLoop_keyFirst(_, _, _, _, _, _, _, _)
\* recordLoop as it would be if the key were validated before the value
recordLoop_keyFirst(h, log, x, schema, pos, keys, i, y) ==
    IF i > Len(keys) THEN Return(h, log, Ref(y))
    ELSE LET k == keys[i]
             rk == validate(h, log, Str(k), schema.sub[1], Append(pos, 1))
         IN IF ~rk.ok
            THEN Throw(rk.heap, rk.log, [KeyError(rk.err) EXCEPT !.path = <<Str(k)>>])
            ELSE LET arg == Get(rk.heap, x.n, k)
                     rv == validate(rk.heap, Append(rk.log, EvGet(pos, x.n, k, arg)), arg,
                                    schema.sub[2], Append(pos, 2))
                 IN IF ~rv.ok THEN Throw(rv.heap, rv.log, rethrow(rv.err, Str(k)))
                    ELSE recordLoop_keyFirst(Set(rv.heap, y, ToStr(rk.val), rv.val),
                                             Append(rv.log, EvSet(pos, y, ToStr(rk.val), rv.val)),
                                             x, schema, pos, keys, i + 1, y)

\* the loop of record from the i-th of the keys of x on, y the new object
recordLoop(h, log, x, schema, pos, keys, i, y) ==
    IF i > Len(keys) THEN Return(h, log, Ref(y))
    ELSE LET k == keys[i]
             arg == Get(h, x.n, k)
             rv == validate(h, Append(log, EvGet(pos, x.n, k, arg)), arg,
                            schema.sub[2], Append(pos, 2))
         IN IF ~rv.ok THEN Throw(rv.heap, rv.log, rethrow(rv.err, Str(k)))
            ELSE LET rk == validate(rv.heap, rv.log, Str(k), schema.sub[1], Append(pos, 1))
                 IN IF ~rk.ok
                    THEN Throw(rk.heap, rk.log, [KeyError(rk.err) EXCEPT !.path = <<Str(k)>>])
                    ELSE recordLoop(Set(rk.heap, y, ToStr(rk.val), rv.val),
                                    Append(rk.log, EvSet(pos, y, ToStr(rk.val), rv.val)),
                                    x, schema, pos, keys, i + 1, y)

\* record(key, value)
record(h, log, x, schema, pos) ==
    IF TypeOf(x) # "object" \/ Falsy(x) \/ IsArray(h, x)
    THEN fail(h, log, Expected("object"))
    ELSE LET y == Len(h) + 1
         IN recordLoop(Append(h, EmptyObject), Append(log, EvAlloc(pos, y)),
                       x, schema, pos, h[x.n].keys, 1, y)

\* the loop of array from index i on
arrayLoop(h, log, x, schema, pos, i) ==
    IF ~(i < Length(h, x)) THEN Return(h, log, x)
    ELSE LET key == Digits[i + 1]
             arg == Get(h, x.n, key)
             r == validate(h, Append(log, EvGet(pos, x.n, key, arg)), arg,
                           schema.sub[1], Append(pos, 1))
         IN IF r.ok
            THEN arrayLoop(Set(r.heap, x.n, key, r.val),
                           Append(r.log, EvSet(pos, x.n, key, r.val)), x, schema, pos, i + 1)
            ELSE Throw(r.heap, r.log, rethrow(r.err, Num(i)))

\* array(schema)
array(h, log, x, schema, pos) ==
    IF ~IsArray(h, x) THEN fail(h, log, Expected("array"))
    ELSE arrayLoop(h, log, x, schema, pos, 0)

RECURSIVE allOfLoop_fromInput(_, _, _, _, _, _)
\* allOfLoop as it would be if every schema validated the input, not the previous result
allOfLoop_fromInput(h, log, x, schema, pos, i) ==
    IF i > Len(schema.sub) THEN Return(h, log, x)
    ELSE LET r == validate(h, log, x, schema.sub[i], Append(pos, i))
         IN IF ~r.ok THEN r
            ELSE IF i = Len(schema.sub) THEN r
            ELSE allOfLoop_fromInput(r.heap, r.log, x, schema, pos, i + 1)

\* schemas.reduce(validate, x) from the i-th schema on, x the accumulator
allOfLoop(h, log, x, schema, pos, i) ==
    IF i > Len(schema.sub) THEN Return(h, log, x)
    ELSE LET r == validate(h, log, x, schema.sub[i], Append(pos, i))
         IN IF r.ok THEN allOfLoop(r.heap, r.log, r.val, schema, pos, i + 1) ELSE r

\* allOf(...schemas)
allOf(h, log, x, schema, pos) == allOfLoop(h, log, x, schema, pos, 1)

RECURSIVE anyOfLoop_lastWins(_, _, _, _, _, _, _)
\* anyOfLoop as it would be if it kept on after a success and returned the last one:
\* failures holds the failures, or the one success so far
anyOfLoop_lastWins(h, log, x, schema, pos, i, failures) ==
    IF i > Len(schema.sub)
    THEN IF Len(failures) = 1 /\ failures[1].type = "" THEN Return(h, log, failures[1].error[1])
         ELSE fail(h, log, Union(failures))
    ELSE LET r == validate(h, log, x, schema.sub[i], Append(pos, i))
         IN IF r.ok
            THEN anyOfLoop_lastWins(r.heap, r.log, x, schema, pos, i + 1,
                                    <<Desc("", "", "", <<>>, <<r.val>>)>>)
            ELSE IF Len(failures) = 1 /\ failures[1].type = ""
            THEN anyOfLoop_lastWins(r.heap, r.log, x, schema, pos, i + 1, failures)
            ELSE anyOfLoop_lastWins(r.heap, r.log, x, schema, pos, i + 1,
                                    Append(failures, r.err))

RECURSIVE anyOfLoop_rollback(_, _, _, _, _, _, _)
\* anyOfLoop as it would be if the writes of a failed alternative were undone
\* before the next alternative is tried
anyOfLoop_rollback(h, log, x, schema, pos, i, failures) ==
    IF i > Len(schema.sub) THEN fail(h, log, Union(failures))
    ELSE LET r == validate(h, log, x, schema.sub[i], Append(pos, i))
         IN IF r.ok THEN r
            ELSE anyOfLoop_rollback(h, r.log, x, schema, pos, i + 1, Append(failures, r.err))

\* the loop of anyOf from the i-th schema on
anyOfLoop(h, log, x, schema, pos, i, failures) ==
    IF i > Len(schema.sub) THEN fail(h, log, Union(failures))
    ELSE LET r == validate(h, log, x, schema.sub[i], Append(pos, i))
         IN IF r.ok THEN r
            ELSE anyOfLoop(r.heap, r.log, x, schema, pos, i + 1, Append(failures, r.err))

\* anyOf(...schemas)
anyOf(h, log, x, schema, pos) == anyOfLoop(h, log, x, schema, pos, 1, <<>>)

RECURSIVE oneOfLoop_noAmbiguity(_, _, _, _, _, _, _)
\* oneOfLoop as it would be without `if (count > 1) throw fail({ type: "unexpected" })`
oneOfLoop_noAmbiguity(h, log, x, schema, pos, i, st) ==
    IF i > Len(schema.sub)
    THEN IF st.count = 0 THEN fail(h, log, Union(st.failures))
         ELSE Return(h, log, st.result)
    ELSE LET r == validate(h, log, x, schema.sub[i], Append(pos, i))
         IN IF ~r.ok
            THEN oneOfLoop_noAmbiguity(r.heap, r.log, x, schema, pos, i + 1,
                                       [st EXCEPT !.failures = Append(@, r.err)])
            ELSE oneOfLoop_noAmbiguity(r.heap, r.log, x, schema, pos, i + 1,
                                       [st EXCEPT !.count = @ + 1, !.result = r.val])

RECURSIVE oneOfLoop_unshift(_, _, _, _, _, _, _)
\* oneOfLoop as it would be with failures.unshift(e.info) for failures.push(e.info)
oneOfLoop_unshift(h, log, x, schema, pos, i, st) ==
    IF i > Len(schema.sub)
    THEN IF st.count = 0 THEN fail(h, log, Union(st.failures))
         ELSE Return(h, log, st.result)
    ELSE LET r == validate(h, log, x, schema.sub[i], Append(pos, i))
         IN IF ~r.ok
            THEN oneOfLoop_unshift(r.heap, r.log, x, schema, pos, i + 1,
                                   [st EXCEPT !.failures = <<r.err>> \o @])
            ELSE IF st.count + 1 > 1 THEN fail(r.heap, r.log, Unexpected)
            ELSE oneOfLoop_unshift(r.heap, r.log, x, schema, pos, i + 1,
                                   [st EXCEPT !.count = @ + 1, !.result = r.val])

\* the loop of oneOf from the i-th schema on; st holds count, result and failures
oneOfLoop(h, log, x, schema, pos, i, st) ==
    IF i > Len(schema.sub)
    THEN IF st.count = 0 THEN fail(h, log, Union(st.failures))
         ELSE Return(h, log, st.result)
    ELSE LET r == validate(h, log, x, schema.sub[i], Append(pos, i))
         IN IF ~r.ok
            THEN oneOfLoop(r.heap, r.log, x, schema, pos, i + 1,
                           [st EXCEPT !.failures = Append(@, r.err)])
            ELSE IF st.count + 1 > 1 THEN fail(r.heap, r.log, Unexpected)
            ELSE oneOfLoop(r.heap, r.log, x, schema, pos, i + 1,
                           [st EXCEPT !.count = @ + 1, !.result = r.val])

\* oneOf(...schemas)
oneOf(h, log, x, schema, pos) ==
    oneOfLoop(h, log, x, schema, pos, 1, [count |-> 0, result |-> x, failures |-> <<>>])

\* schema(x) for a validator function
call(h, log, x, schema, pos) ==
    CASE schema.k = "string" -> string(h, log, x, schema)
      [] schema.k = "number" -> number(h, log, x)
      [] schema.k = "integer" -> integer(h, log, x)
      [] schema.k = "boolean" -> boolean(h, log, x)
      [] schema.k = "any" -> any(h, log, x)
      [] schema.k = "never" -> never(h, log, x)
      [] schema.k = "maybe" -> maybe(h, log, x, schema, pos)
      [] schema.k = "struct" -> struct(h, log, x, schema, pos)
      [] schema.k = "record" -> record(h, log, x, schema, pos)
      [] schema.k = "array" -> array(h, log, x, schema, pos)
      [] schema.k = "allOf" -> allOf(h, log, x, schema, pos)
      [] schema.k = "anyOf" -> anyOf(h, log, x, schema, pos)
      [] schema.k = "oneOf" -> oneOf(h, log, x, schema, pos)
      [] schema.k = "map" -> map(h, log, x, schema, pos)
      [] schema.k = "filter" -> filter(h, log, x, schema, pos)

\* validate as it would be if a keyed schema returned a copy of x: return { ...x }
validate_copy(h, log0, x, schema, pos) ==
    LET log == Append(log0, EvValidate(pos, x))
    IN IF IsValidator(schema) THEN call(h, log, x, schema, pos)
       ELSE IF schema.k \in {"object", "tuple"}
       THEN IF ~shapeOk(h, x, schema) THEN fail(h, log, Expected(shapeExpected(schema)))
            ELSE LET r == keyedLoop(h, log, x, schema, pos, 1)
                 IN IF r.ok
                    THEN Return(Append(r.heap, r.heap[x.n]), r.log, Ref(Len(r.heap) + 1))
                    ELSE r
       ELSE IF ~StrictEq(x, schema.v) THEN fail(h, log, Expected(Stringify(schema.v)))
       ELSE Return(h, log, x)

\* validate(x, schema), pos the place of schema in the schema of the outermost call
validate(h, log0, x, schema, pos) ==
    LET log == Append(log0, EvValidate(pos, x))
    IN IF IsValidator(schema) THEN call(h, log, x, schema, pos)
       ELSE IF schema.k \in {"object", "tuple"}
       THEN IF ~shapeOk(h, x, schema) THEN fail(h, log, Expected(shapeExpected(schema)))
            ELSE keyedLoop(h, log, x, schema, pos, 1)
       ELSE IF ~StrictEq(x, schema.v) THEN fail(h, log, Expected(Stringify(schema.v)))
       ELSE Return(h, log, x)

(***************************************************************************)
(* The inputs a caller builds: primitives, object literals and array       *)
(* literals, allocated in the heap.                                        *)
(***************************************************************************)
Json(c, v, keys, sub) == [c |-> c, v |-> v, keys |-> keys, sub |-> sub]
JPrim(v) == Json("prim", v, <<>>, <<>>)
\* { keys[1]: sub[1], ... }, the keys as written
JObj(keys, sub) == Json("obj", Undef, keys, sub)
\* [ sub[1], ... ]
JArr(sub) == Json("arr", Undef, [i \in 1..Len(sub) |-> Digits[i]], sub)

RECURSIVE build(_, _)
RECURSIVE buildProps(_, _, _, _)
\* the properties of the literal j from the i-th on, evaluated into the container o
buildProps(h, j, i, o) ==
    IF i > Len(j.sub) THEN [heap |-> h, o |-> o]
    ELSE LET kid == build(h, j.sub[i])
         IN buildProps(kid.heap, j, i + 1, SetProp(o, j.keys[i], kid.val))
\* the literal j evaluated in heap h: the heap after, and the value
build(h, j) ==
    IF j.c = "prim" THEN [heap |-> h, val |-> j.v]
    ELSE LET b == buildProps(h, j, 1, [EmptyObject EXCEPT !.isArray = (j.c = "arr")])
         IN [heap |-> Append(b.heap, b.o), val |-> Ref(Len(b.heap) + 1)]

\* Keys of the containers of the inputs, and all key sequences of length d
Keys == {"a", "b"}
KeySeqs(d) == [1..d -> Keys]
AllKeySeqs == UNION {KeySeqs(d) : d \in 1..MaxDepth}

Nums == {Num(i) : i \in 0..MaxNum}
Prims ==
    Nums \cup {Half(0), NaN, Infinity, Str(""), Str("a"), Str("b"), Str("c"), Str("d"),
               Str("e"), Str("_"), Bool(TRUE), Bool(FALSE), Null, Undef}
\* what the containers of the inputs hold
Elems == {Num(1), Str("a"), Str("b")}
JElems == {JPrim(v) : v \in Elems}

RECURSIVE JChain(_, _)
\* { keys[1]: { keys[2]: ... leaf } }
JChain(keys, leaf) ==
    IF keys = <<>> THEN leaf ELSE JObj(<<keys[1]>>, <<JChain(Tail(keys), leaf)>>)

FlatObjects ==
    {JObj(<<>>, <<>>)}
    \cup {JObj(<<k>>, <<e>>) : k \in Keys \cup {"0"}, e \in JElems \cup {JPrim(Undef)}}
    \cup {JObj(ks, <<e1, e2>>) : ks \in {<<"a", "b">>, <<"b", "a">>, <<"0", "1">>, <<"a", "0">>},
                                 e1 \in JElems, e2 \in JElems}
Arrays == UNION {{JArr(q) : q \in [1..n -> JElems]} : n \in 0..MaxLen}
Chains == {JChain(ks, leaf) : ks \in AllKeySeqs, leaf \in {JPrim(Num(1)), JPrim(Str("x"))}}
Nested ==
    {JObj(<<"a">>, <<c>>) : c \in {JArr(<<JPrim(Num(1)), JPrim(Str("a"))>>),
                                   JArr(<<JPrim(Num(1)), JPrim(Num(2))>>)}}
    \cup {JArr(<<JObj(<<"a">>, <<e>>)>>) : e \in JElems}
    \cup {JArr(<<JObj(<<"a">>, <<JPrim(Num(1))>>), JObj(<<"a">>, <<e>>)>>) : e \in JElems}
    \cup {JObj(<<"a", "b">>, <<JObj(<<"a">>, <<e1>>), JObj(<<"a">>, <<e2>>)>>) :
              e1 \in JElems, e2 \in JElems}
    \cup {JObj(<<"a", "b">>, <<JObj(<<"a", "b">>, <<JPrim(Num(1)), e>>), JPrim(Num(1))>>) :
              e \in JElems}
Inputs == {JPrim(v) : v \in Prims} \cup FlatObjects \cup Arrays \cup Chains \cup Nested

(***************************************************************************)
(* The schemas the callers pass.                                           *)
(***************************************************************************)
RECURSIVE SChain(_, _)
\* { keys[1]: { keys[2]: ... leaf } }
SChain(keys, leaf) ==
    IF keys = <<>> THEN leaf ELSE ObjS(<<keys[1]>>, <<SChain(Tail(keys), leaf)>>)

DoubleS == MapS(NumberS, "double")
Leaves ==
    {NumberS, IntegerS, StringS(""), StringS("/^[a-z0-9]+$/i"), BooleanS, AnyS, NeverS,
     LitS(Str("a")), LitS(Str("b")), LitS(Num(1)), LitS(Null), LitS(Undef), LitS(NaN),
     LitS(Bool(TRUE))}
Refined ==
    {DoubleS, MapS(NumberS, "greaterThanOne"), MapS(StringS(""), "prefix"),
     FilterS(StringS(""), "isB", ""), FilterS(NumberS, "greaterThanOne", "too small"),
     MaybeS(NumberS, Undef), MaybeS(StringS(""), Str("b")), MaybeS(NumberS, Str("a")),
     StructS(LitS(Str("a"))), StructS(LitS(Null))}
\* the schemas the combinators are built over
Base == {NumberS, StringS(""), LitS(Str("a")), DoubleS, MaybeS(NumberS, Undef)}

Keyed ==
    {ObjS(<<>>, <<>>), TupS(<<>>)}
    \cup {ObjS(<<k>>, <<s>>) : k \in Keys \cup {"0"}, s \in Base}
    \cup {TupS(<<s>>) : s \in Base}
    \cup {ObjS(ks, <<s1, s2>>) : ks \in {<<"a", "b">>, <<"0", "1">>}, s1 \in Base, s2 \in Base}
    \cup {TupS(<<s1, s2>>) : s1 \in Base, s2 \in Base}
    \cup {SChain(ks, leaf) : ks \in AllKeySeqs, leaf \in {NumberS, DoubleS}}
Structural ==
    {ArrayS(s) : s \in Base \cup {AnyS}}
    \cup {RecordS(k, v) : k \in {StringS(""), AnyS, LitS(Str("a")), MapS(StringS(""), "prefix"),
                                 MapS(AnyS, "double")},
                          v \in Base \cup {AnyS}}
Logical ==
    {AllOfS(<<>>), AnyOfS(<<>>), OneOfS(<<>>)}
    \cup {AllOfS(<<s1, s2>>) : s1 \in Base, s2 \in Base}
    \cup {AnyOfS(<<s1, s2>>) : s1 \in Base, s2 \in Base}
    \cup {OneOfS(<<s1, s2>>) : s1 \in Base, s2 \in Base}
    \cup {OneOfS(<<s1, s2, s3>>) : s1 \in {NumberS, LitS(Str("a"))}, s2 \in Base,
                                   s3 \in {NumberS, StringS("")}}
\* the unions of the tests: "a" | "b", "a" | "c", "a" | "c" | "d", "a" | "b" | "c"
AB == AnyOfS(<<LitS(Str("a")), LitS(Str("b"))>>)
AC == AnyOfS(<<LitS(Str("a")), LitS(Str("c"))>>)
ACD == AnyOfS(<<LitS(Str("a")), LitS(Str("c")), LitS(Str("d"))>>)
ABC == AnyOfS(<<LitS(Str("a")), LitS(Str("b")), LitS(Str("c"))>>)
\* schemas that nest the structural and the logical combinators
Mixed ==
    {OneOfS(<<AB, AC>>), OneOfS(<<AB, ACD>>), AllOfS(<<ABC, ACD>>),
     AnyOfS(<<LitS(Str("a")), LitS(Str("b")), LitS(Undef)>>),
     ObjS(<<"a">>, <<ArrayS(NumberS)>>), ObjS(<<"a">>, <<ArrayS(DoubleS)>>),
     ArrayS(ObjS(<<"a">>, <<NumberS>>)), ArrayS(ObjS(<<"a">>, <<DoubleS>>)),
     RecordS(StringS(""), ObjS(<<"a">>, <<NumberS>>)),
     RecordS(StringS(""), ObjS(<<"a">>, <<DoubleS>>)),
     RecordS(StringS(""), ObjS(<<"b">>, <<MaybeS(NumberS, Undef)>>)),
     RecordS(AnyS, ArrayS(DoubleS)),
     RecordS(MapS(MapS(StringS(""), "prefix"), "greaterThanOne"), AnyS),
     ObjS(<<"a">>, <<RecordS(StringS(""), NumberS)>>),
     RecordS(StringS(""), RecordS(LitS(Str("a")), NumberS)),
     AnyOfS(<<ObjS(<<"a", "b">>, <<DoubleS, LitS(Str("a"))>>), ObjS(<<"a">>, <<NumberS>>)>>),
     AnyOfS(<<ObjS(<<"a", "b">>, <<DoubleS, LitS(Str("a"))>>), ObjS(<<"a">>, <<LitS(Num(1))>>)>>),
     AnyOfS(<<ObjS(<<"a">>, <<DoubleS>>), ObjS(<<"a">>, <<NumberS>>)>>),
     AnyOfS(<<TupS(<<LitS(Str("a")), StringS("")>>), TupS(<<LitS(Str("b")), NumberS>>)>>),
     OneOfS(<<ObjS(<<"a">>, <<DoubleS>>), ObjS(<<"a">>, <<LitS(Num(1))>>)>>),
     OneOfS(<<ObjS(<<"a">>, <<NumberS>>), ObjS(<<"b">>, <<NumberS>>)>>),
     OneOfS(<<ObjS(<<"b">>, <<MaybeS(NumberS, Undef)>>), RecordS(StringS(""), NumberS)>>),
     OneOfS(<<RecordS(StringS(""), NumberS), ObjS(<<"b">>, <<MaybeS(NumberS, Undef)>>)>>),
     OneOfS(<<ObjS(<<"a">>, <<RecordS(StringS(""), LitS(Num(1)))>>),
              ObjS(<<"a">>, <<ObjS(<<"b", "a">>, <<MaybeS(NumberS, Undef), LitS(Num(2))>>)>>)>>),
     AllOfS(<<ObjS(<<"a">>, <<DoubleS>>), ObjS(<<"a">>, <<MapS(NumberS, "greaterThanOne")>>)>>),
     AllOfS(<<RecordS(AnyS, AnyS), ObjS(<<"a">>, <<DoubleS>>)>>),
     AllOfS(<<NumberS, DoubleS, MapS(NumberS, "greaterThanOne")>>),
     MapS(ObjS(<<"a">>, <<NumberS>>), "double")}
\* the container schemas the logical combinators are built over
KeyedBase ==
    {ObjS(<<"a">>, <<NumberS>>), ObjS(<<"b">>, <<MaybeS(NumberS, Undef)>>),
     ObjS(<<"a", "b">>, <<DoubleS, LitS(Str("a"))>>), RecordS(StringS(""), NumberS)}
LogicalKeyed ==
    {AllOfS(<<s1, s2>>) : s1 \in KeyedBase, s2 \in KeyedBase}
    \cup {AnyOfS(<<s1, s2>>) : s1 \in KeyedBase, s2 \in KeyedBase}
    \cup {OneOfS(<<s1, s2>>) : s1 \in KeyedBase, s2 \in KeyedBase}
Schemas ==
    Leaves \cup Refined \cup Keyed \cup Structural \cup Logical \cup LogicalKeyed \cup Mixed

(***************************************************************************)
(* The state machine: a caller builds an input, calls validate(input,      *)
(* schema), and may validate the result again with the same schema.        *)
(***************************************************************************)
\* the outcome kept of a call (its heap is the variable heap)
Outcome(r) == [ok |-> r.ok, val |-> r.val, err |-> r.err, log |-> r.log]
NoOutcome == [ok |-> FALSE, val |-> Undef, err |-> NoError, log |-> <<>>]

VARIABLES
    heap,    \* the containers
    input,   \* the value the caller validates
    schema,  \* the schema of the call
    pre,     \* the heap when validate was called
    out,     \* the outcome of the last call
    first,   \* the outcome of the call before it
    pc       \* "ready", "called", "again"

vars == <<heap, input, schema, pre, out, first, pc>>

Init ==
    \E j \in Inputs :
        /\ heap = build(<<>>, j).heap
        /\ input = build(<<>>, j).val
        /\ schema = AnyS
        /\ pre = <<>>
        /\ out = NoOutcome
        /\ first = NoOutcome
        /\ pc = "ready"

\* validate(input, s)
Validate(s) ==
    /\ pc = "ready"
    /\ LET r == validate(heap, <<>>, input, s, <<>>)
       IN /\ heap' = r.heap
          /\ out' = Outcome(r)
    /\ schema' = s
    /\ pre' = heap
    /\ pc' = "called"
    /\ UNCHANGED <<input, first>>

\* validate(validate(input, schema), schema)
ValidateAgain ==
    /\ pc = "called"
    /\ out.ok
    /\ LET r == validate(heap, <<>>, out.val, schema, <<>>)
       IN /\ heap' = r.heap
          /\ out' = Outcome(r)
    /\ first' = out
    /\ pre' = heap
    /\ pc' = "again"
    /\ UNCHANGED <<input, schema>>

Next == (\E s \in Schemas : Validate(s)) \/ ValidateAgain

Spec == Init /\ [][Next]_vars

(***************************************************************************)
(* What the claims are stated over.                                        *)
(***************************************************************************)
\* a call of validate has returned or thrown
Called == pc \in {"called", "again"}
\* the value that call validated
arg == IF pc = "again" THEN first.val ELSE input
\* arg is a container
IsContainer(x) == x.t = "ref"
Reverse(q) == [i \in 1..Len(q) |-> q[Len(q) + 1 - i]]
StrSeq(ks) == [i \in 1..Len(ks) |-> Str(ks[i])]

RECURSIVE Lookup(_, _, _)
\* x[ks[1]][ks[2]]..., undefined as soon as a step is no map-like object
Lookup(h, x, ks) ==
    IF ks = <<>> THEN x
    ELSE IF ~IsContainer(x) \/ IsArray(h, x) THEN Undef
    ELSE Lookup(h, Get(h, x.n, ks[1]), Tail(ks))
RECURSIVE IsPath(_, _, _)
\* every step of x[ks[1]][ks[2]]... but the last yields a map-like object
IsPath(h, x, ks) ==
    IF ks = <<>> THEN TRUE
    ELSE IsContainer(x) /\ ~IsArray(h, x) /\ IsPath(h, Get(h, x.n, ks[1]), Tail(ks))

RECURSIVE KeyResults(_, _, _, _, _)
\* The results of validating, one declared key after the other, the value that x
\* held at each key when validate was called: the sequence of outcomes of
\* validate(x[keys[i]], subs[i]), each run in the heap its predecessor left.
KeyResults(h, h0, x, keys, subs) ==
    IF keys = <<>> THEN <<>>
    ELSE LET r == validate(h, <<>>, Get(h0, x.n, keys[1]), subs[1], <<>>)
         IN <<r>> \o KeyResults(r.heap, h0, x, Tail(keys), Tail(subs))

\* the keys and schemas a keyed schema or array(...) visits in x
VisitedKeys(h, x, s) == IF s.k = "array" THEN h[x.n].keys ELSE s.keys
VisitedSchemas(h, x, s) ==
    IF s.k = "array" THEN [i \in 1..Length(h, x) |-> s.sub[1]] ELSE s.sub

\* C1: when a keyed schema (map-like or array-like) or array(elementSchema)
\* accepts a container x, the call returns x itself, the same reference, and
\* on return x[k] holds the result of validate(x[k], schema[k]) for every
\* declared key k (every index, for array).
C1_ReturnsInputWithResults ==
    (Called /\ schema.k \in {"object", "tuple", "array"} /\ out.ok) =>
        /\ out.val = arg
        /\ IsContainer(arg)
        /\ LET keys == VisitedKeys(pre, arg, schema)
               res == KeyResults(pre, pre, arg, keys, VisitedSchemas(pre, arg, schema))
           IN \A i \in 1..Len(keys) :
                  res[i].ok /\ Get(heap, arg.n, keys[i]) = res[i].val

\* a keyed schema accepted a container and a declared key holds a transformed value
C1_Witness ==
    /\ pc = "called" /\ out.ok
    /\ schema.k \in {"object", "tuple"}
    /\ out.val = input
    /\ \E k \in Range(schema.keys) : Get(heap, input.n, k) # Get(pre, input.n, k)

C3_PathRootToLeaf ==
    \A ks \in AllKeySeqs :
        (/\ Called
         /\ schema = SChain(ks, NumberS)
         /\ IsPath(pre, arg, ks)
         /\ ~IsFinite(Lookup(pre, arg, ks))) =>
            /\ ~out.ok
            /\ out.err.path = StrSeq(ks)

RECURSIVE DeepEq(_, _, _, _)
\* v1 in heap h1 equals v2 in heap h2 as values: primitives are the same,
\* containers are both sequences or both not and hold equal values at every
\* key (a key holding undefined counts as absent)
DeepEq(h1, v1, h2, v2) ==
    IF IsContainer(v1) /\ IsContainer(v2)
    THEN /\ h1[v1.n].isArray = h2[v2.n].isArray
         /\ \A k \in DOMAIN h1[v1.n].val \cup DOMAIN h2[v2.n].val :
                DeepEq(h1, Get(h1, v1.n, k), h2, Get(h2, v2.n, k))
    ELSE v1 = v2

RECURSIVE Plain(_)
\* the schema s is built without map, without a maybe default and without record
Plain(s) ==
    /\ s.k \notin {"map", "record"}
    /\ s.k = "maybe" => s.v = Undef
    /\ \A i \in 1..Len(s.sub) : Plain(s.sub[i])

RECURSIVE Attempts(_, _, _, _)
\* The outcomes of trying the schemas subs[i], subs[i+1], ... on x in declared
\* order, each in the heap the one before it left (whether it failed or not).
Attempts(h, x, subs, i) ==
    IF i > Len(subs) THEN <<>>
    ELSE LET r == validate(h, <<>>, x, subs[i], <<i>>)
         IN <<r>> \o Attempts(r.heap, x, subs, i + 1)
\* the alternatives that succeeded
Successes(at) == {i \in 1..Len(at) : at[i].ok}
Min(S) == CHOOSE i \in S : \A j \in S : i <= j
\* the alternatives the call invoked: the first segments of the places it validated
Invoked == {out.log[i].pos[1] : i \in {j \in 1..Len(out.log) : out.log[j].pos # <<>>}}

\* C5: anyOf(s1..sn)(x) tries the schemas in declared order and returns the
\* result of the first that succeeds; the schemas after it are never
\* invoked, so when several alternatives accept x the result is that of the
\* earliest one.
C5_AnyOfFirstSuccess ==
    (Called /\ schema.k = "anyOf") =>
        LET at == Attempts(pre, arg, schema.sub, 1)
        IN Successes(at) # {} =>
               LET i0 == Min(Successes(at))
               IN /\ out.ok
                  /\ out.val = at[i0].val
                  /\ heap = at[i0].heap
                  /\ Invoked = 1..i0

\* anyOf(number(), map(number(), x => 2 * x)) returned 1 for 1: both accept it,
\* the first one's result is returned and the second is not invoked
C5_Witness ==
    /\ pc = "called"
    /\ schema = AnyOfS(<<NumberS, DoubleS>>)
    /\ input = Num(1)
    /\ out.ok /\ out.val = Num(1)
    /\ validate(pre, <<>>, input, DoubleS, <<>>).val = Num(2)
    /\ Invoked = {1}

RECURSIVE Fold(_, _, _, _)
\* The outcomes of the left fold of validate over subs[i], subs[i+1], ...: each
\* schema validates the result of the one before it, up to the first failure.
Fold(h, x, subs, i) ==
    IF i > Len(subs) THEN <<>>
    ELSE LET r == validate(h, <<>>, x, subs[i], <<i>>)
         IN IF r.ok THEN <<r>> \o Fold(r.heap, r.val, subs, i + 1) ELSE <<r>>

\* C7: allOf(s1..sn)(x) is the left fold of validate over the schemas: each
\* schema validates the result of the one before it and the last result is
\* returned; it fails at the first failing schema with that failure's
\* descriptor and path unmodified and without invoking the later schemas
\* (allOf(anyOf("a","b","c"), anyOf("a","c","d")) accepts exactly "a" and "c").
C7_AllOfLeftFold ==
    (Called /\ schema.k = "allOf") =>
        LET f == Fold(pre, arg, schema.sub, 1)
        IN /\ f = <<>> => (out.ok /\ out.val = arg)
           /\ (f # <<>> /\ f[Len(f)].ok) =>
                  (out.ok /\ out.val = f[Len(f)].val /\ Invoked = 1..Len(schema.sub))
           /\ (f # <<>> /\ ~f[Len(f)].ok) =>
                  (~out.ok /\ out.err = f[Len(f)].err /\ Invoked = 1..Len(f))
           /\ schema = AllOfS(<<ABC, ACD>>) => (out.ok <=> arg \in {Str("a"), Str("c")})

\* allOf({a: map(number(), x => 2 * x)}, {a: map(number(), x => x > 1 ? x : fail(..))})
\* accepted {a: 1}: the second schema validated the first one's result, {a: 2}
C7_Witness ==
    /\ pc = "called"
    /\ schema = AllOfS(<<ObjS(<<"a">>, <<DoubleS>>),
                         ObjS(<<"a">>, <<MapS(NumberS, "greaterThanOne")>>)>>)
    /\ IsContainer(input)
    /\ Get(pre, input.n, "a") = Num(1)
    /\ out.ok
    /\ Get(heap, input.n, "a") = Num(2)

\* `array[${N}]`, as the claim writes it
ArrayN == <<"array[0]", "array[1]", "array[2]", "array[3]">>
\* x is a sequence
IsSequence(h, x) == IsContainer(x) /\ IsArray(h, x)
\* the call threw `info` at once: nothing was validated under it, read or written
FailedAtOnce(info) ==
    /\ ~out.ok
    /\ out.err = info
    /\ out.err.path = <<>>
    /\ out.log = <<EvValidate(<<>>, arg)>>
    /\ heap = pre

\* C8: for an array-like schema of length N, validate fails with {type:
\* 'expected', expected: "array[N]"} and an empty path whenever x is not a
\* sequence or is a sequence of another length (also a map-like object with
\* keys 0..N-1), and then no element of x is validated or written; a
\* map-like schema fails with expected "object" whenever x is null, not a
\* container, or a sequence.
C8_ShapeMismatch ==
    Called =>
        /\ (/\ schema.k = "tuple"
            /\ (~IsSequence(pre, arg) \/ Length(pre, arg) # Len(schema.sub))) =>
               FailedAtOnce(Expected(ArrayN[Len(schema.sub) + 1]))
        /\ (schema.k = "object" /\ (~IsContainer(arg) \/ IsSequence(pre, arg))) =>
               FailedAtOnce(Expected("object"))

\* a two-element array-like schema was applied to the map-like object {0: .., 1: ..}
C8_Witness ==
    /\ pc = "called"
    /\ schema.k = "tuple" /\ Len(schema.sub) = 2
    /\ IsContainer(input) /\ ~IsArray(pre, input)
    /\ pre[input.n].keys = <<"0", "1">>
    /\ ~out.ok
    /\ out.err.expected = "array[2]"

\* the heap h with the keys of x that `declared` does not list taken away
StripExtra(h, x, declared) ==
    LET Declared(k) == k \in declared
    IN [h EXCEPT ![x.n] = [isArray |-> FALSE,
                           keys |-> SelectSeq(h[x.n].keys, Declared),
                           val |-> [k \in DOMAIN h[x.n].val \cap declared |-> h[x.n].val[k]]]]
\* the keys of x that the schema does not declare
ExtraKeys == DOMAIN pre[arg.n].val \ Range(schema.keys)

\* C9: a map-like schema is a subset constraint: the keys of the input that
\* the schema does not declare never cause failure (the outcome is that of
\* the input without them), are never read or passed to a validator, and
\* hold the same value after validate returns as before.
C9_ExtraKeysPassThrough ==
    (Called /\ schema.k = "object" /\ IsContainer(arg) /\ ~IsArray(pre, arg)) =>
        LET r == validate(StripExtra(pre, arg, Range(schema.keys)), <<>>, arg, schema, <<>>)
        IN /\ r.ok = out.ok /\ r.err = out.err /\ r.val = out.val
           /\ \A k \in ExtraKeys :
                  /\ k \in DOMAIN heap[arg.n].val
                  /\ heap[arg.n].val[k] = pre[arg.n].val[k]
                  /\ \A i \in 1..Len(out.log) :
                         ~(out.log[i].op \in {"get", "set"}
                           /\ out.log[i].a = arg.n /\ out.log[i].k = k)

\* a map-like schema with declared keys accepted an object that has an undeclared key
C9_Witness ==
    /\ pc = "called"
    /\ schema.k = "object" /\ schema.keys # <<>>
    /\ IsContainer(input) /\ ~IsArray(pre, input)
    /\ ExtraKeys # {}
    /\ out.ok

\* C10 (as claimed): record(keySchema, valueSchema)(x) never mutates its
\* input: after the call, failed or not, x and every value reachable from x
\* are unchanged, and on success the result is a new object distinct from x.
C10_RecordNeverMutates ==
    (Called /\ schema.k = "record") =>
        /\ \A a \in 1..Len(pre) : heap[a] = pre[a]
        /\ out.ok => (IsContainer(out.val) /\ out.val.n > Len(pre))

\* C10 (amended): record(keySchema, valueSchema)(x) never writes to x
\* itself: after the call, failed or not, x has the same keys holding the
\* same values and references as before, and on success the result is a
\* newly allocated map-like object distinct from x.  (The containers nested
\* in x are validated in place by valueSchema and may be changed.)
C10_RecordLeavesOwnKeys ==
    (Called /\ schema.k = "record") =>
        /\ IsContainer(arg) => heap[arg.n] = pre[arg.n]
        /\ \A i \in 1..Len(out.log) :
               ~(out.log[i].op = "set" /\ IsContainer(arg) /\ out.log[i].a = arg.n)
        /\ out.ok => /\ IsContainer(out.val)
                     /\ out.val.n > Len(pre)
                     /\ out.val # arg
                     /\ ~IsArray(heap, out.val)

\* record accepted an object and its value schema changed a container nested in it
C10_Witness ==
    /\ pc = "called"
    /\ schema.k = "record"
    /\ out.ok
    /\ heap[input.n] = pre[input.n]
    /\ \E a \in 1..Len(pre) : heap[a] # pre[a]

\* C11: when no alternative succeeds (each tried in declared order on x),
\* anyOf(s1..sn) and oneOf(s1..sn) fail with a 'union' descriptor with an
\* empty path whose failures list has exactly n entries, the i-th entry being
\* the descriptor, with its own accumulated path, of the failure of the i-th
\* schema.
C11_UnionOfAllFailures ==
    (Called /\ schema.k \in {"anyOf", "oneOf"}) =>
        LET at == Attempts(pre, arg, schema.sub, 1)
        IN Successes(at) = {} =>
               /\ ~out.ok
               /\ out.err.type = "union"
               /\ out.err.path = <<>>
               /\ Len(out.err.failures) = Len(schema.sub)
               /\ \A i \in 1..Len(schema.sub) : out.err.failures[i] = at[i].err
               /\ Invoked = 1..Len(schema.sub)

\* oneOf of two keyed schemas rejected an object: both alternatives failed,
\* each under a key of its own, and the union lists the two failures in order
C11_Witness ==
    /\ pc = "called"
    /\ schema.k = "oneOf" /\ Len(schema.sub) = 2
    /\ ~out.ok
    /\ out.err.type = "union"
    /\ Len(out.err.failures) = 2
    /\ out.err.failures[1].path # <<>>
    /\ out.err.failures[2].path # <<>>
    /\ out.err.failures[1] # out.err.failures[2]

RECURSIVE RecordSteps(_, _, _, _, _)
\* What record(key, value) is to do for the keys of x, one after the other, up
\* to the first failure: for each key k the outcome of validate(x[k], value)
\* and, if that passed, the outcome of validate(k, key).
RecordSteps(h, x, keys, key, value) ==
    IF keys = <<>> THEN <<>>
    ELSE LET k == keys[1]
             rv == validate(h, <<>>, Get(h, x.n, k), value, <<>>)
             rk == validate(rv.heap, <<>>, Str(k), key, <<>>)
         IN IF ~rv.ok THEN <<[k |-> k, value |-> rv, key |-> rv]>>
            ELSE IF ~rk.ok THEN <<[k |-> k, value |-> rv, key |-> rk]>>
            ELSE <<[k |-> k, value |-> rv, key |-> rk]>>
                 \o RecordSteps(rk.heap, x, Tail(keys), key, value)
\* the places in the log where the call read x[k] and validated it by the value schema
ValueValidatedAt(k) ==
    {i \in 1..(Len(out.log) - 1) :
        /\ out.log[i].op = "get" /\ out.log[i].pos = <<>>
        /\ out.log[i].a = arg.n /\ out.log[i].k = k
        /\ out.log[i + 1] = EvValidate(<<2>>, out.log[i].v)}
\* the places in the log where the call validated the key k by the key schema
KeyValidatedAt(k) == {i \in 1..Len(out.log) : out.log[i] = EvValidate(<<1>>, Str(k))}

\* C12: in record(keySchema, valueSchema), for each present key k the value
\* x[k] is validated before the key: if the value fails, the error is the
\* value's failure with k added as a path segment and the key schema is never
\* invoked for k; if the value passes and the key fails, the error is the
\* descriptor {type: 'key', path: [k], error: the key failure's descriptor},
\* k the original key.
C12_RecordValueBeforeKey ==
    (Called /\ schema.k = "record" /\ IsContainer(arg) /\ ~IsArray(pre, arg)) =>
        LET steps == RecordSteps(pre, arg, pre[arg.n].keys, schema.sub[1], schema.sub[2])
        IN /\ out.ok <=> (Len(steps) = Len(pre[arg.n].keys)
                          /\ \A j \in 1..Len(steps) : steps[j].key.ok)
           /\ \A j \in 1..Len(steps) :
                  LET k == steps[j].k
                  IN /\ Cardinality(ValueValidatedAt(k)) = 1
                     /\ ~steps[j].value.ok =>
                            /\ ~out.ok
                            /\ out.err = [steps[j].value.err EXCEPT !.path = Append(@, Str(k))]
                            /\ KeyValidatedAt(k) = {}
                     /\ steps[j].value.ok =>
                            /\ Cardinality(KeyValidatedAt(k)) = 1
                            /\ \A i1 \in ValueValidatedAt(k) :
                                   \A i2 \in KeyValidatedAt(k) : i1 < i2
                     /\ (steps[j].value.ok /\ ~steps[j].key.ok) =>
                            /\ ~out.ok
                            /\ out.err.type = "key"
                            /\ out.err.path = <<Str(k)>>
                            /\ out.err.error = <<steps[j].key.err>>
                            /\ out.err = [KeyError(steps[j].key.err) EXCEPT !.path = <<Str(k)>>]

\* record(key, value) rejected an object at its second key: the first key and
\* its value passed, the second key's value passed and the key schema
\* rejected the key
C12_Witness ==
    /\ pc = "called"
    /\ schema.k = "record"
    /\ IsContainer(input) /\ Len(pre[input.n].keys) = 2
    /\ ~out.ok
    /\ out.err.type = "key"
    /\ out.err.path = <<Str(pre[input.n].keys[2])>>
    /\ out.err.error[1].type = "expected"
    /\ KeyValidatedAt(pre[input.n].keys[1]) # {}
    /\ ValueValidatedAt(pre[input.n].keys[2]) # {}

\* the declared keys whose values the schema rejects, as indices into the
\* schema's iteration order
FailingKeys(res) == {i \in 1..Len(res) : ~res[i].ok}
\* the call validated the i-th declared key: it read x[key] and validated it by schema[key]
KeyVisited(i) ==
    \E j \in 1..(Len(out.log) - 1) :
        /\ out.log[j].op = "get" /\ out.log[j].pos = <<>>
        /\ out.log[j].a = arg.n /\ out.log[j].k = schema.keys[i]
        /\ out.log[j + 1] = EvValidate(<<i>>, out.log[j].v)
\* the call did nothing about the i-th declared key: no read, no validation
\* under schema[key], no write, and x[key] is as it was
KeyUntouched(i) ==
    /\ \A j \in 1..Len(out.log) :
           /\ ~(out.log[j].pos = <<>> /\ out.log[j].op \in {"get", "set"}
                /\ out.log[j].a = arg.n /\ out.log[j].k = schema.keys[i])
           /\ ~(out.log[j].pos # <<>> /\ out.log[j].pos[1] = i)
    /\ (schema.keys[i] \in DOMAIN heap[arg.n].val) = (schema.keys[i] \in DOMAIN pre[arg.n].val)
    /\ Get(heap, arg.n, schema.keys[i]) = Get(pre, arg.n, schema.keys[i])

\* C13: a keyed-schema traversal succeeds only after every declared key has
\* been validated; if some declared key fails, the first failing key in the
\* schema's iteration order alone determines the raised error (that key's
\* failure with the key added to its path), no declared key after it is
\* validated or written, and the failures of several keys are not aggregated.
C13_FirstFailingKeyDecides ==
    (Called /\ schema.k \in {"object", "tuple"} /\ shapeOk(pre, arg, schema)) =>
        LET res == KeyResults(pre, pre, arg, schema.keys, schema.sub)
            F == FailingKeys(res)
        IN /\ out.ok <=> F = {}
           /\ out.ok => \A i \in 1..Len(schema.keys) : KeyVisited(i)
           /\ F # {} =>
                  LET i0 == Min(F)
                  IN /\ ~out.ok
                     /\ out.err = [res[i0].err EXCEPT !.path = Append(@, Str(schema.keys[i0]))]
                     /\ \A i \in 1..i0 : KeyVisited(i)
                     /\ \A i \in (i0 + 1)..Len(schema.keys) : KeyUntouched(i)
                     /\ \A j \in 1..Len(out.log) :
                            ~(out.log[j].op = "set" /\ out.log[j].pos = <<>>
                              /\ out.log[j].k = schema.keys[i0])

\* a schema of two keys rejected an object whose two values both fail: the
\* error is the first key's, and the second key was not validated
C13_Witness ==
    /\ pc = "called"
    /\ schema.k = "object" /\ Len(schema.keys) = 2
    /\ shapeOk(pre, input, schema)
    /\ FailingKeys(KeyResults(pre, pre, input, schema.keys, schema.sub)) = {1, 2}
    /\ ~out.ok
    /\ out.err.path = <<Str(schema.keys[1])>>
    /\ KeyUntouched(2)

Max(S) == CHOOSE i \in S : \A j \in S : j <= i
\* the heap the alternatives before the i-th left
HeapBefore(at, i) == IF i = 1 THEN pre ELSE at[i - 1].heap
\* the places in the log where the i-th alternative read a key of x itself
ReadsOfInput(i) ==
    {j \in 1..Len(out.log) :
        /\ out.log[j].op = "get" /\ out.log[j].pos = <<i>>
        /\ IsContainer(arg) /\ out.log[j].a = arg.n}
\* x is a container of the shape the keyed schema or array(...) s loops over
Traversed(h, x, s) ==
    IF s.k = "array" THEN IsSequence(h, x)
    ELSE s.k \in {"object", "tuple"} /\ shapeOk(h, x, s)

\* C14: a failed structural validation is not rolled back: when validate on
\* a keyed schema (or array(...)) fails at key k, the results already written
\* to the keys before k stay in the input container; so in anyOf and oneOf
\* every alternative that is run after the first is run against the input as
\* the earlier alternatives (failed or successful) left it, not against the
\* original input.
C14_FailureNotRolledBack ==
    Called =>
        /\ (schema.k \in {"object", "tuple", "array"} /\ Traversed(pre, arg, schema)) =>
               LET keys == VisitedKeys(pre, arg, schema)
                   res == KeyResults(pre, pre, arg, keys, VisitedSchemas(pre, arg, schema))
                   F == FailingKeys(res)
               IN F # {} =>
                      /\ ~out.ok
                      /\ \A i \in 1..(Min(F) - 1) :
                             /\ Get(heap, arg.n, keys[i]) = res[i].val
                             /\ \E j \in 1..Len(out.log) :
                                    out.log[j] = EvSet(<<>>, arg.n, keys[i], res[i].val)
        /\ schema.k \in {"anyOf", "oneOf"} =>
               LET at == Attempts(pre, arg, schema.sub, 1)
               IN /\ \A i \in Invoked :
                         /\ \E j \in 1..Len(out.log) : out.log[j] = EvValidate(<<i>>, arg)
                         /\ \A j \in ReadsOfInput(i) :
                                out.log[j].v = Get(HeapBefore(at, i), arg.n, out.log[j].k)
                  /\ Invoked # {} => heap = at[Max(Invoked)].heap

\* anyOf of two keyed schemas: the first alternative wrote a transformed
\* result to a key of the input and then failed at a later key; the write is
\* still there after the call, and the second alternative read the
\* transformed value, not the original
C14_Witness ==
    /\ pc = "called"
    /\ schema.k = "anyOf" /\ Len(schema.sub) = 2
    /\ schema.sub[1].k = "object"
    /\ IsContainer(input)
    /\ \E j \in 1..Len(out.log) :
           /\ out.log[j].op = "set" /\ out.log[j].pos = <<1>> /\ out.log[j].a = input.n
           /\ out.log[j].v # Get(pre, input.n, out.log[j].k)
           /\ Get(heap, input.n, out.log[j].k) = out.log[j].v
           /\ \E j2 \in ReadsOfInput(2) :
                  /\ out.log[j2].k = out.log[j].k
                  /\ out.log[j2].v = out.log[j].v
====
